---- MODULE Spec2Model ----
(***************************************************************************)
(* Model of src/socket.rs: an AF_PACKET raw socket handle (Socket), the    *)
(* interface request record it hands to ioctl (IfReq / IfReqUnion), and    *)
(* the operating system calls it binds to (socket, if_nametoindex, ioctl,  *)
(* setsockopt, getsockopt), the latter as a mock kernel.                   *)
(***************************************************************************)
EXTENDS Integers, Sequences, FiniteSets, TLC

(***************************************************************************)
(* Program constants                                                       *)
(***************************************************************************)
IFNAMESIZE == 16
IFREQUNIONSIZE == 24
SIOCGIFFLAGS == 35091
SIOCSIFFLAGS == 35092
PACKET_FANOUT == 18
AF_PACKET == 17
IFF_PROMISC == 256

(***************************************************************************)
(* Bounds of the model                                                     *)
(***************************************************************************)
\* longest interface name tried is IFNAMESIZE + MaxNameExtra bytes
MaxNameExtra == 1
\* handle slots of the calling program
MaxHandles == 2
\* size of the process's descriptor table above stdin/stdout/stderr
MaxFds == 2
\* set_flag calls started in one behaviour of SpecFlags
MaxCalls == 1
\* set_flag calls started in one behaviour of SpecRace
MaxRaceCalls == 2
\* writes to the interface flags by other programs in one behaviour
MaxExternal == 1
\* largest option value, in bytes, beyond the size of a pointer on x86_64
MaxValExtra == 1

(***************************************************************************)
(* Build targets: the ioctl call is compiled for target_arch "x86_64" and  *)
(* "mips" only; "mips" covers the big-endian mips and the little-endian    *)
(* mipsel targets.                                                         *)
(***************************************************************************)
Targets == {"x86_64", "mips", "mipsel"}
BigEndian(t) == t = "mips"
PtrSize(t) == IF t = "x86_64" THEN 8 ELSE 4

(***************************************************************************)
(* Fixed-width integers.  A c_short is kept as its signed value; U16 and   *)
(* S16 convert between the signed value and its two's complement pattern.  *)
(***************************************************************************)
Shorts == -32768..32767
U16(s) == IF s < 0 THEN s + 65536 ELSE s
S16(u) == IF u >= 32768 THEN u - 65536 ELSE u

RECURSIVE BitOr(_, _)
BitOr(a, b) ==
    IF a = 0 THEN b
    ELSE IF b = 0 THEN a
    ELSE (IF a % 2 = 1 \/ b % 2 = 1 THEN 1 ELSE 0) + 2 * BitOr(a \div 2, b \div 2)

RECURSIVE BitAnd(_, _)
BitAnd(a, b) ==
    IF a = 0 \/ b = 0 THEN 0
    ELSE (IF a % 2 = 1 /\ b % 2 = 1 THEN 1 ELSE 0) + 2 * BitAnd(a \div 2, b \div 2)

\* i16 | i16
ShortOr(a, b) == S16(BitOr(U16(a), U16(b)))
\* (x as c_short) << 8 : the bits shifted out of the 16-bit value are lost
ShortShl8(s) == S16((U16(s) * 256) % 65536)
\* i16::swap_bytes
SwapBytes(s) == S16((U16(s) % 256) * 256 + (U16(s) \div 256))
\* c_short::from_be : the identity on a big-endian target, a byte swap otherwise
FromBe(t, s) == IF BigEndian(t) THEN s ELSE SwapBytes(s)
\* mem::transmute::<c_short, [u8; 2]> : the value's bytes in memory order
Transmute(t, s) ==
    IF BigEndian(t) THEN <<U16(s) \div 256, U16(s) % 256>>
    ELSE <<U16(s) % 256, U16(s) \div 256>>
\* the native c_short found at two bytes of memory (what the kernel reads)
NativeShort(t, b0, b1) == IF BigEndian(t) THEN S16(b0 * 256 + b1) ELSE S16(b1 * 256 + b0)

(***************************************************************************)
(* IfReqUnion                                                              *)
(***************************************************************************)
IfReqUnionDefault == [i \in 1..IFREQUNIONSIZE |-> 0]

as_short_NoFromBe(t, data) == ShortOr(ShortShl8(data[1]), data[2])
as_short(t, data) == FromBe(t, ShortOr(ShortShl8(data[1]), data[2]))

from_short(t, i) ==
    LET bytes == Transmute(t, i)
    IN  [IfReqUnionDefault EXCEPT ![1] = bytes[1], ![2] = bytes[2]]

(***************************************************************************)
(* Interface names: byte sequences.  The names tried are "lo", "a", the     *)
(* longest name that fits the name field, the names of IFNAMESIZE up to    *)
(* IFNAMESIZE + MaxNameExtra bytes, and names with an embedded null byte   *)
(* (a short one and one longer than the name field).                       *)
(***************************************************************************)
Rep(n) == [i \in 1..n |-> 97]
NameLo == <<108, 111>>
NameFull == Rep(IFNAMESIZE - 1)
NameNul == <<97, 0, 98>>
NameLongNul == <<0>> \o Rep(IFNAMESIZE + MaxNameExtra)
NameNone == Rep(1)
LongNames == {Rep(n) : n \in IFNAMESIZE..(IFNAMESIZE + MaxNameExtra)}
Names == LongNames \cup {NameLo, NameNone, NameFull, NameNul, NameLongNul}
HasNul(name) == \E i \in 1..Len(name) : name[i] = 0

\* c as i8, and the byte the kernel sees again
AsI8(c) == IF c >= 128 THEN c - 256 ELSE c
AsU8(c) == IF c < 0 THEN c + 256 ELSE c

\* the C string held in a byte buffer: the bytes before the first null
CStr(buf) ==
    LET nuls == {i \in 1..Len(buf) : buf[i] = 0}
        end == IF nuls = {} THEN Len(buf) + 1
               ELSE CHOOSE i \in nuls : \A j \in nuls : i <= j
    IN  [i \in 1..(end - 1) |-> AsU8(buf[i])]

(***************************************************************************)
(* Results: io::Result<T>.  err is "none" for Ok, "OSError" for            *)
(* Error::last_os_error(), "TooLong" for the ErrorKind::Other error of     *)
(* with_if_name and "NulError" for the error CString::new returns.         *)
(***************************************************************************)
Ok(v) == [err |-> "none", val |-> v]
Err(e) == [err |-> e, val |-> 0]

(***************************************************************************)
(* IfReq                                                                   *)
(***************************************************************************)
IfReqDefault == [ifr_name |-> [i \in 1..IFNAMESIZE |-> 0], union |-> IfReqUnionDefault]

with_if_name(if_name) ==
    IF Len(if_name) >= IFNAMESIZE
    THEN Err("TooLong")
    ELSE Ok([IfReqDefault EXCEPT
               !.ifr_name = [i \in 1..IFNAMESIZE |->
                               IF i <= Len(if_name) THEN AsI8(if_name[i]) ELSE 0]])

ifr_flags(t, if_req) == as_short(t, if_req.union)

(***************************************************************************)
(* The mock kernel.  Two interfaces exist, "lo" (index 1) and one whose    *)
(* name fills the name field (index 2).                                    *)
(***************************************************************************)
IfNames == {NameLo, NameFull}
if_nametoindex(name) ==
    IF name = NameLo THEN 1 ELSE IF name = NameFull THEN 2 ELSE 0

FdRange == 3..(2 + MaxFds)
\* socket(): the lowest free descriptor, or -1 (no privilege, table full)
sys_socket(fds, permitted) ==
    IF permitted /\ FdRange \ fds # {}
    THEN CHOOSE fd \in FdRange \ fds : \A g \in FdRange \ fds : fd <= g
    ELSE -1

\* return values of a control call: -1 failure, 0 success, and a positive
\* value, which ioctl(2) allows a request to return on success
SysRets == {-1, 0, 1}

\* ioctl(fd, ident, &mut req) with r the return value the kernel picks when
\* the descriptor and the interface exist
sys_ioctl(t, fds, kf, fd, ident, req, r) ==
    LET ifc == CStr(req.ifr_name)
    IN  IF fd \notin fds \/ ifc \notin IfNames \/ r = -1
          \/ ident \notin {SIOCGIFFLAGS, SIOCSIFFLAGS}
        THEN [ret |-> -1, req |-> req, kflags |-> kf]
        ELSE IF ident = SIOCGIFFLAGS
        THEN LET b == Transmute(t, kf[ifc])
             IN  [ret |-> r,
                  req |-> [req EXCEPT !.union[1] = b[1], !.union[2] = b[2]],
                  kflags |-> kf]
        ELSE [ret |-> r, req |-> req,
              kflags |-> [kf EXCEPT ![ifc] = NativeShort(t, req.union[1], req.union[2])]]

(***************************************************************************)
(* State                                                                   *)
(***************************************************************************)
VARIABLES
    target,     \* the build target
    handles,    \* the program's Socket values, by slot; NoHandle when none
    openFds,    \* descriptors open in the process
    kflags,     \* kernel: interface name -> flags (c_short)
    sockopts,   \* kernel: descriptor -> option id -> stored bytes
    calls,      \* per slot, the set_flag call in progress
    ncalls,     \* set_flag calls started
    nexternal,  \* external writes of the flags made
    okBits,     \* interface name -> flag bits whose set_flag returned Ok
    last,       \* the call that returned last, with its arguments and result
    sv,         \* from_short / as_short exercise: the input value
    sdata,      \*   the union region
    sout,       \*   the value read back
    spc         \*   position of the exercise

vars == <<target, handles, openFds, kflags, sockopts, calls, ncalls, nexternal,
          okBits, last, sv, sdata, sout, spc>>

Slots == 1..MaxHandles
NoHandle == [fd |-> -1]
Live(h) == handles[h] # NoHandle
Idle == [pc |-> "idle"]
OptIds == {PACKET_FANOUT}
NoOpts == [o \in OptIds |-> <<>>]

\* flags an interface has before the program runs
InitFlags == {0, IFF_PROMISC, 4163, -32768, -1, 255}

InitCommon ==
    /\ handles = [h \in Slots |-> NoHandle]
    /\ openFds = {}
    /\ sockopts = [fd \in FdRange |-> NoOpts]
    /\ calls = [h \in Slots |-> Idle]
    /\ ncalls = 0
    /\ nexternal = 0
    /\ okBits = [n \in IfNames |-> {}]
    /\ last = [op |-> "none"]

Init ==
    /\ target \in Targets
    /\ InitCommon
    /\ kflags = [n \in IfNames |-> 0]
    /\ sv = 0 /\ sdata = IfReqUnionDefault /\ sout = 0 /\ spc = "off"

(***************************************************************************)
(* get_if_index                                                            *)
(***************************************************************************)
get_if_index_ErrOnZero(name) ==
    IF HasNul(name) THEN [err |-> "NulError", val |-> 0, lookup |-> FALSE]
    ELSE IF if_nametoindex(name) = 0 THEN [err |-> "OSError", val |-> 0, lookup |-> TRUE]
    ELSE [err |-> "none", val |-> if_nametoindex(name), lookup |-> TRUE]

\* lookup tells whether if_nametoindex was called
get_if_index(name) ==
    IF HasNul(name) THEN [err |-> "NulError", val |-> 0, lookup |-> FALSE]
    ELSE [err |-> "none", val |-> if_nametoindex(name), lookup |-> TRUE]

call_get_if_index(name) ==
    /\ last' = [op |-> "get_if_index", name |-> name, res |-> get_if_index(name)]
    /\ UNCHANGED <<target, handles, openFds, kflags, sockopts, calls, ncalls,
                   nexternal, okBits, sv, sdata, sout, spc>>

(***************************************************************************)
(* Socket: construction, clone (derived), end of scope (no Drop impl)      *)
(***************************************************************************)
from_if_name(h, if_name, socket_type, permitted) ==
    /\ ~Live(h)
    /\ LET fd == sys_socket(openFds, permitted)
           idx == get_if_index(if_name)
       IN  IF fd < 0
           THEN /\ last' = [op |-> "from_if_name", name |-> if_name, err |-> "OSError",
                            fd |-> fd, fdsBefore |-> openFds]
                /\ UNCHANGED <<handles, openFds>>
           ELSE /\ openFds' = openFds \cup {fd}
                /\ IF idx.err # "none"
                   THEN /\ last' = [op |-> "from_if_name", name |-> if_name,
                                    err |-> idx.err, fd |-> fd, fdsBefore |-> openFds]
                        /\ UNCHANGED handles
                   ELSE /\ handles' = [handles EXCEPT ![h] =
                                         [fd |-> fd, if_name |-> if_name,
                                          if_index |-> idx.val, sock_type |-> socket_type]]
                        /\ last' = [op |-> "from_if_name", name |-> if_name,
                                    err |-> "none", fd |-> fd, fdsBefore |-> openFds]
    /\ UNCHANGED <<target, kflags, sockopts, calls, ncalls, nexternal, okBits,
                   sv, sdata, sout, spc>>

clone(h, h2) ==
    /\ Live(h) /\ calls[h] = Idle /\ ~Live(h2)
    /\ handles' = [handles EXCEPT ![h2] = handles[h]]
    /\ last' = [op |-> "clone", h |-> h]
    /\ UNCHANGED <<target, openFds, kflags, sockopts, calls, ncalls, nexternal,
                   okBits, sv, sdata, sout, spc>>

drop(h) ==
    /\ Live(h) /\ calls[h] = Idle
    /\ handles' = [handles EXCEPT ![h] = NoHandle]
    /\ last' = [op |-> "drop", h |-> h]
    /\ UNCHANGED <<target, openFds, kflags, sockopts, calls, ncalls, nexternal,
                   okBits, sv, sdata, sout, spc>>

Next ==
    \/ \E h \in Slots, n \in Names, p \in BOOLEAN : from_if_name(h, n, AF_PACKET, p)
    \/ \E h \in Slots, h2 \in Slots : clone(h, h2)
    \/ \E h \in Slots : drop(h)
    \/ \E n \in Names : call_get_if_index(n)

Spec == Init /\ [][Next]_vars

(***************************************************************************)
(* Properties of construction and ownership (specification Spec)           *)
(***************************************************************************)
Owners(fd) == {h \in Slots : Live(h) /\ handles[h].fd = fd}

\* C1: for every interface name of IFNAMESIZE bytes or more, from_if_name
\* fails with the "interface name too long" error and no descriptor is open
\* that was not open before the call.
\* (A call whose socket() was refused before the name could matter is not
\* held against the claim.)
C1_LongNameRejected ==
    (last.op = "from_if_name" /\ Len(last.name) >= IFNAMESIZE /\ last.fd >= 0)
        => (last.err = "TooLong" /\ openFds = last.fdsBefore)

\* C2: every open descriptor has exactly one live owning handle: never two
\* handles with the same descriptor, never an open descriptor without owner.
C2_ExclusiveOwner ==
    \A fd \in openFds : Cardinality(Owners(fd)) = 1

\* C5: from_if_name fails whenever the name (free of null bytes) resolves to
\* no existing interface; it never returns a handle for an unresolved name.
C5_UnresolvedNameFails ==
    (last.op = "from_if_name" /\ ~HasNul(last.name) /\ last.name \notin IfNames)
        => last.err = "OSError"

\* C8: get_if_index returns an error exactly when the name contains a null
\* byte, and then without calling the OS lookup; for every other name it
\* returns Ok with the looked-up index, which is 0 when no interface of that
\* name exists and non-zero when one does.
C8_GetIfIndex ==
    last.op = "get_if_index" =>
        /\ (last.res.err # "none") <=> HasNul(last.name)
        /\ HasNul(last.name) => (last.res.err = "NulError" /\ ~last.res.lookup)
        /\ ~HasNul(last.name) =>
              /\ last.res.lookup
              /\ (last.name \notin IfNames) => last.res.val = 0
              /\ (last.name \in IfNames) => last.res.val > 0

\* a name without null byte and without interface was resolved to Ok(0)
C8_Witness ==
    /\ last.op = "get_if_index"
    /\ ~HasNul(last.name) /\ last.name \notin IfNames
    /\ last.res.err = "none" /\ last.res.val = 0

(***************************************************************************)
(* The flags encode/decode pair on its own (specification SpecShort):      *)
(* every c_short is encoded by from_short, the rest of the union region is *)
(* then possibly overwritten (other members of the kernel's union share    *)
(* those bytes), and the value is read back by as_short.                   *)
(***************************************************************************)
TailFills == {0, 255}

InitShort ==
    /\ target \in Targets
    /\ InitCommon
    /\ kflags = [n \in IfNames |-> 0]
    /\ sv \in Shorts /\ sdata = IfReqUnionDefault /\ sout = 0 /\ spc = "start"

do_from_short ==
    /\ spc = "start"
    /\ sdata' = from_short(target, sv)
    /\ spc' = "encoded"
    /\ UNCHANGED <<target, handles, openFds, kflags, sockopts, calls, ncalls,
                   nexternal, okBits, last, sv, sout>>

fill_tail(g) ==
    /\ spc = "encoded"
    /\ sdata' = [i \in 1..IFREQUNIONSIZE |-> IF i <= 2 THEN sdata[i] ELSE g]
    /\ spc' = "filled"
    /\ UNCHANGED <<target, handles, openFds, kflags, sockopts, calls, ncalls,
                   nexternal, okBits, last, sv, sout>>

do_as_short ==
    /\ spc \in {"encoded", "filled"}
    /\ sout' = as_short(target, sdata)
    /\ spc' = "decoded"
    /\ UNCHANGED <<target, handles, openFds, kflags, sockopts, calls, ncalls,
                   nexternal, okBits, last, sv, sdata>>

NextShort ==
    \/ do_from_short
    \/ \E g \in TailFills : fill_tail(g)
    \/ do_as_short

SpecShort == InitShort /\ [][NextShort]_vars

\* C10: on a little-endian and on a big-endian host, from_short(v) holds
\* v's bytes in memory order in the first two bytes of the union region and
\* zero in the other 22, and as_short gives v back from those two bytes
\* alone, whatever the other bytes hold.
C10_ShortRoundTrip ==
    /\ spc = "encoded" =>
          /\ sdata[1] = (IF target = "mips" THEN U16(sv) \div 256 ELSE U16(sv) % 256)
          /\ sdata[2] = (IF target = "mips" THEN U16(sv) % 256 ELSE U16(sv) \div 256)
          /\ \A i \in 3..IFREQUNIONSIZE : sdata[i] = 0
    /\ spc = "decoded" => sout = sv

\* a negative value with two different bytes was read back on a big-endian
\* host from a union whose other bytes are not zero
C10_Witness ==
    /\ spc = "decoded" /\ target = "mips" /\ sv = -32767 /\ sout = sv
    /\ sdata[1] = 128 /\ sdata[2] = 1 /\ sdata[3] = 255

(***************************************************************************)
(* Socket::ioctl, get_flags and set_flag                                   *)
(***************************************************************************)
\* Socket::ioctl: ret is the return value of the control call
ioctl_ZeroOnly(t, fds, kf, sock, ident, if_req, r) ==
    LET sys == sys_ioctl(t, fds, kf, sock.fd, ident, if_req, r)
    IN  [res |-> IF sys.ret # 0 THEN Err("OSError") ELSE Ok(sys.req),
         ret |-> sys.ret, kflags |-> sys.kflags]

ioctl(t, fds, kf, sock, ident, if_req, r) ==
    LET sys == sys_ioctl(t, fds, kf, sock.fd, ident, if_req, r)
    IN  [res |-> IF sys.ret = -1 THEN Err("OSError") ELSE Ok(sys.req),
         ret |-> sys.ret, kflags |-> sys.kflags]

\* issued tells whether the control call was made
get_flags(t, fds, kf, sock, r) ==
    LET w == with_if_name(sock.if_name)
    IN  IF w.err # "none"
        THEN [res |-> w, ret |-> 0, issued |-> FALSE, kflags |-> kf]
        ELSE LET io == ioctl(t, fds, kf, sock, SIOCGIFFLAGS, w.val, r)
             IN  [res |-> io.res, ret |-> io.ret, issued |-> TRUE, kflags |-> io.kflags]

\* the ? applied to the result of get_flags: set_flag returns the error
get_flags_failed_Never(res) == FALSE
get_flags_failed(res) == res.err # "none"

\* flag as c_short
FlagAsShort(flag) == S16(flag % 65536)

new_flags_Assign(flags, flag) == FlagAsShort(flag)
new_flags(flags, flag) == ShortOr(flags, FlagAsShort(flag))

\* &mut self: a handle runs one set_flag at a time; handles do not exclude
\* one another
set_flag_may_start(h) ==
    Live(h) /\ calls[h] = Idle

KF(name) == IF name \in IfNames THEN kflags[name] ELSE 0

\* set_flag up to and including its get_flags call
set_flag_read(h, flag, r) ==
    /\ set_flag_may_start(h)
    /\ ncalls' = ncalls + 1
    /\ LET sock == handles[h]
           g == get_flags(target, openFds, kflags, sock, r)
           rec == [op |-> "set_flag", h |-> h, name |-> sock.if_name, flag |-> flag,
                   getIssued |-> g.issued, getRet |-> g.ret, getErr |-> g.res.err,
                   kAtRead |-> KF(sock.if_name), kBefore |-> KF(sock.if_name),
                   setIssued |-> FALSE, setRet |-> 0, err |-> g.res.err]
       IN  /\ kflags' = g.kflags
           /\ IF get_flags_failed(g.res)
              THEN /\ last' = [rec EXCEPT !.op = "set_flag"] @@ [stage |-> "done", read |-> 0]
                   /\ UNCHANGED calls
              ELSE /\ calls' = [calls EXCEPT ![h] =
                                  [pc |-> "got", flag |-> flag,
                                   flags |-> IF g.res.err = "none"
                                             THEN ifr_flags(target, g.res.val) ELSE 0,
                                   rec |-> rec]]
                   /\ last' = rec @@ [stage |-> "read",
                                      read |-> IF g.res.err = "none"
                                               THEN ifr_flags(target, g.res.val) ELSE 0]
    /\ UNCHANGED <<target, handles, openFds, sockopts, nexternal, okBits,
                   sv, sdata, sout, spc>>

\* the local `flags` of set_flag: the value its get_flags call returned
held_flags_Fresh(h) == KF(handles[h].if_name)
held_flags(h) == calls[h].flags

\* the rest of set_flag: the new flags and the SIOCSIFFLAGS call
set_flag_write(h, r) ==
    /\ calls[h].pc = "got"
    /\ LET sock == handles[h]
           c == calls[h]
           w == with_if_name(sock.if_name)
           if_req == [w.val EXCEPT !.union = from_short(target, new_flags(held_flags(h), c.flag))]
           io == ioctl(target, openFds, kflags, sock, SIOCSIFFLAGS, if_req, r)
           rec == c.rec @@ [stage |-> "done", read |-> c.flags]
       IN  IF w.err # "none"
           THEN /\ last' = [rec EXCEPT !.err = w.err, !.kBefore = KF(sock.if_name)]
                /\ UNCHANGED <<kflags, okBits>>
           ELSE /\ kflags' = io.kflags
                /\ last' = [rec EXCEPT !.err = io.res.err, !.setIssued = TRUE,
                                       !.setRet = io.ret, !.kBefore = KF(sock.if_name)]
                /\ okBits' = IF io.res.err = "none" /\ sock.if_name \in IfNames
                             THEN [okBits EXCEPT ![sock.if_name] = @ \cup {c.flag}]
                             ELSE okBits
    /\ calls' = [calls EXCEPT ![h] = Idle]
    /\ UNCHANGED <<target, handles, openFds, sockopts, ncalls, nexternal,
                   sv, sdata, sout, spc>>

\* another program sets the flags of an interface
external_write(n, v) ==
    /\ nexternal' = nexternal + 1
    /\ kflags' = [kflags EXCEPT ![n] = v]
    /\ last' = [op |-> "external", name |-> n]
    /\ UNCHANGED <<target, handles, openFds, sockopts, calls, ncalls, okBits,
                   sv, sdata, sout, spc>>

RECURSIVE Pow2(_)
Pow2(k) == IF k = 0 THEN 1 ELSE 2 * Pow2(k - 1)
\* the sixteen bits of the flags field, and one bit beyond it
FlagBits == {Pow2(k) : k \in 0..15}
FlagArgs == FlagBits \cup {65536}
FlagNames == {NameLo, NameNone, Rep(IFNAMESIZE)}

\* one handle, every flag bit, both byte orders
InitFlagsSpec ==
    /\ target \in {"x86_64", "mips"}
    /\ InitCommon
    /\ kflags \in [IfNames -> InitFlags] /\ kflags[NameFull] = 0
    /\ sv = 0 /\ sdata = IfReqUnionDefault /\ sout = 0 /\ spc = "off"

NextFlags ==
    \/ \E n \in FlagNames, p \in BOOLEAN : from_if_name(1, n, AF_PACKET, p)
    \/ \E f \in FlagArgs, r \in SysRets : ncalls < MaxCalls /\ set_flag_read(1, f, r)
    \/ \E r \in SysRets : set_flag_write(1, r)

SpecFlags == InitFlagsSpec /\ [][NextFlags]_vars

\* several handles on "lo", two flag bits, control calls that fail or
\* succeed, and another program writing
RaceBits == {1, IFF_PROMISC}
RaceRets == {-1, 0}
InitRace ==
    /\ target = "x86_64"
    /\ InitCommon
    /\ kflags = [n \in IfNames |-> 0]
    /\ sv = 0 /\ sdata = IfReqUnionDefault /\ sout = 0 /\ spc = "off"

NextRace ==
    \/ \E h \in Slots : from_if_name(h, NameLo, AF_PACKET, TRUE)
    \/ \E h \in Slots, f \in RaceBits, r \in RaceRets :
          ncalls < MaxRaceCalls /\ set_flag_read(h, f, r)
    \/ \E h \in Slots, r \in RaceRets : set_flag_write(h, r)
    \/ \E v \in {0} : nexternal < MaxExternal /\ external_write(NameLo, v)

SpecRace == InitRace /\ [][NextRace]_vars

(***************************************************************************)
(* Properties of set_flag (specifications SpecFlags and SpecRace)          *)
(***************************************************************************)
SetFlagDone == last.op = "set_flag" /\ last.stage = "done"

\* C3: a set_flag(bit) that returns Ok, with bit one of the sixteen bits of
\* the flags field and the interface's flags not written by anyone else
\* during the call, leaves the flags equal to (flags before) OR bit: no bit
\* cleared, no other bit set, nothing changed when the bit was already set.
C3_SetFlagOrs ==
    (SetFlagDone /\ last.err = "none" /\ last.flag \in FlagBits
       /\ last.kBefore = last.kAtRead)
    => /\ U16(KF(last.name)) = BitOr(U16(last.kAtRead), last.flag)
       /\ BitAnd(U16(KF(last.name)), U16(last.kAtRead)) = U16(last.kAtRead)
       /\ BitAnd(U16(last.kAtRead), last.flag) = last.flag
             => KF(last.name) = last.kAtRead

\* on the big-endian target, the promiscuous bit was added to flags that had
\* other bits set in both bytes
C3_Witness ==
    /\ SetFlagDone /\ last.err = "none" /\ target = "mips"
    /\ last.flag = IFF_PROMISC /\ last.kAtRead = 4163
    /\ kflags[NameLo] = 4419

\* C6: set_flag returns an OS error whenever its get-flags or its set-flags
\* control call fails (returns -1) and Ok only when both were made and
\* succeeded; when the get-flags call fails the set-flags request is not
\* issued and the flags stay as they were.
C6_SetFlagErrors ==
    last.op = "set_flag" =>
        /\ (last.stage = "done" /\ last.err = "none")
              => (last.getIssued /\ last.getRet # -1 /\ last.setIssued /\ last.setRet # -1)
        /\ (last.getIssued /\ last.getRet = -1)
              => (last.stage = "done" /\ last.err = "OSError" /\ ~last.setIssued
                  /\ KF(last.name) = last.kAtRead)
        /\ (last.setIssued /\ last.setRet = -1)
              => (last.stage = "done" /\ last.err = "OSError")

\* the get-flags call on the existing interface "lo" failed
C6_Witness ==
    /\ SetFlagDone /\ last.name = NameLo
    /\ last.getIssued /\ last.getRet = -1
    /\ last.err = "OSError" /\ ~last.setIssued

\* C7 as claimed: get_flags fails with an OS error for every non-zero return
\* value of the control call and returns a result only when it returned 0.
C7_NonZeroFails ==
    (last.op = "set_flag" /\ last.getIssued)
        => ((last.getErr = "OSError") <=> (last.getRet # 0))

\* C7 as amended: get_flags fails with an OS error exactly when the control
\* call returned -1; for every other return value, zero or not, it returns
\* the request record.
C7_MinusOneFails ==
    (last.op = "set_flag" /\ last.getIssued)
        => /\ (last.getErr = "OSError") <=> (last.getRet = -1)
           /\ (last.getErr = "none") <=> (last.getRet # -1)

\* the control call returned 1 and get_flags returned Ok
C7_Witness ==
    /\ last.op = "set_flag" /\ last.getIssued
    /\ last.getRet = 1 /\ last.getErr = "none" /\ last.stage = "read"

\* C9: set_flag is a read-modify-write that nothing serializes: when the
\* interface's flags were changed between its get-flags and its set-flags
\* call (by another handle's set_flag or by another program), a set_flag
\* that returns Ok has still stored (flags it read) OR bit, discarding
\* the change.
C9_StaleWrite ==
    (SetFlagDone /\ last.err = "none" /\ last.kBefore # last.kAtRead)
        => U16(KF(last.name)) = BitOr(U16(last.kAtRead), last.flag % 65536)

\* two set_flag calls for different bits both returned Ok, no other program
\* wrote the flags, and the flags lack one of the two bits
C9_LostUpdate ==
    /\ SetFlagDone /\ last.err = "none" /\ last.kBefore # last.kAtRead
    /\ \A h \in Slots : calls[h] = Idle
    /\ nexternal = 0
    /\ Cardinality(okBits[NameLo]) = 2
    /\ \E b \in okBits[NameLo] : BitAnd(U16(kflags[NameLo]), b) = 0

(***************************************************************************)
(* Socket options (specification SpecOpt).  The mock kernel stores the     *)
(* bytes setsockopt hands it and getsockopt copies back as many of them as *)
(* the length it is passed allows.                                         *)
(***************************************************************************)
Min(a, b) == IF a <= b THEN a ELSE b

\* values of 1 up to (pointer size on x86_64) + MaxValExtra bytes
OptValues == {[i \in 1..n |-> i] : n \in 1..(PtrSize("x86_64") + MaxValExtra)}

sys_setsockopt(opts, fd, opt, bytes, optlen, r) ==
    IF r = 0
    THEN [ret |-> 0, opts |-> [opts EXCEPT ![fd][opt] = SubSeq(bytes, 1, optlen)]]
    ELSE [ret |-> r, opts |-> opts]

sys_getsockopt(opts, fd, opt, buf, optlen, r) ==
    IF r = 0
    THEN LET n == Min(optlen, Len(opts[fd][opt]))
         IN  [ret |-> 0,
              buf |-> [i \in 1..Len(buf) |-> IF i <= n THEN opts[fd][opt][i] ELSE buf[i]]]
    ELSE [ret |-> r, buf |-> buf]

\* Socket::setsockopt: passes the value's bytes and mem::size_of_val(&opt_val)
setsockopt(h, opt, opt_val, r) ==
    /\ Live(h)
    /\ LET sys == sys_setsockopt(sockopts, handles[h].fd, opt, opt_val, Len(opt_val), r)
       IN  /\ sockopts' = sys.opts
           /\ last' = [op |-> "setsockopt", h |-> h, opt |-> opt, val |-> opt_val,
                       err |-> IF sys.ret = 0 THEN "none" ELSE "OSError"]
    /\ UNCHANGED <<target, handles, openFds, kflags, calls, ncalls, nexternal,
                   okBits, sv, sdata, sout, spc>>

\* get_sock_opt: optlen is mem::size_of_val(&opt_val) with opt_val a
\* reference to a pointer, the size of a pointer
get_sock_opt(t, opts, fd, opt, buf, r) ==
    LET sys == sys_getsockopt(opts, fd, opt, buf, PtrSize(t), r)
    IN  [err |-> IF sys.ret = 0 THEN "none" ELSE "OSError", buf |-> sys.buf]

\* Socket::getsockopt into a zeroed buffer of the caller, as large as the
\* value the caller set for the option (pointer-sized when it set none)
getsockopt(h, opt, r) ==
    /\ Live(h)
    /\ LET stored == sockopts[handles[h].fd][opt]
           buf == [i \in 1..(IF stored = <<>> THEN PtrSize(target) ELSE Len(stored)) |-> 0]
           res == get_sock_opt(target, sockopts, handles[h].fd, opt, buf, r)
       IN  last' = [op |-> "getsockopt", h |-> h, opt |-> opt, err |-> res.err,
                    stored |-> stored, got |-> res.buf]
    /\ UNCHANGED <<target, handles, openFds, kflags, sockopts, calls, ncalls,
                   nexternal, okBits, sv, sdata, sout, spc>>

NextOpt ==
    \/ \E h \in Slots, p \in BOOLEAN : from_if_name(h, NameLo, AF_PACKET, p)
    \/ \E h \in Slots, o \in OptIds, v \in OptValues, r \in SysRets : setsockopt(h, o, v, r)
    \/ \E h \in Slots, o \in OptIds, r \in SysRets : getsockopt(h, o, r)

SpecOpt == Init /\ [][NextOpt]_vars

\* C4: after setsockopt(opt, value) succeeded, a getsockopt(opt, buffer)
\* that succeeds returns exactly the bytes that were set, all of them,
\* whatever the value's size.
C4_OptRoundTrip ==
    (last.op = "getsockopt" /\ last.err = "none" /\ last.stored # <<>>)
        => last.got = last.stored

====
